---- MODULE Spec2Model ----
(***************************************************************************)
(* A model of one sync run of tap-tally (src/tap_tally).  The repository   *)
(* declares six streams on top of the Singer SDK runtime; the model holds  *)
(* the declarations of streams.py / client.py / tap.py and the runtime     *)
(* steps that drive them (Tap.sync_all, Stream.sync, the request loop of   *)
(* RESTStream and its paginators), against a mock of the Tally API whose   *)
(* data is fixed when the run starts.  requests and emitted record, in     *)
(* order, every request sent with its response and every record written;   *)
(* inst numbers the fetches (one get_records call each), 0 for a lookup.   *)
(***************************************************************************)
EXTENDS Integers, Sequences, FiniteSets, TLC

VARIABLES config, api, cache, requests, emitted, pc, error, top, stage,
          ctxs, frames, inst, completed

vars == <<config, api, cache, requests, emitted, pc, error, top, stage,
          ctxs, frames, inst, completed>>

\* ---------------------------------------------------------------- bounds
MaxOrgs == 2
MaxPages == 2
MaxPerPage == 2

Orgs == {"o1", "o2"}

\* ------------------------------------------------------------ small helpers
\* Python's dict d | {k: v}
Put(f, k, v) == [x \in DOMAIN f \cup {k} |-> IF x = k THEN v ELSE f[x]]

\* Python's a.update(b): the keys of b win
Update(a, b) == [x \in DOMAIN a \cup DOMAIN b |-> IF x \in DOMAIN b THEN b[x] ELSE a[x]]

\* the empty dict, also standing for a context of None
EmptyDict == <<>>

\* Optional values: <<>> is None, <<v>> is v
None == <<>>

RECURSIVE SumTo(_, _)
SumTo(s, n) == IF n = 0 THEN 0 ELSE s[n] + SumTo(s, n - 1)

\* ------------------------------------------------- client.py, tap.py, streams.py
\* TallyStream.url_base is a fixed prefix; a URL is the list of its path
\* segments, <<"lit", text>> or <<"var", key>> for a {key} still in it.
Lit(x) == <<"lit", x>>
Var(k) == <<"var", k>>

\* TallyStream.authenticator: BearerTokenAuthenticator(token=config["api_key"])
authenticator == <<"Bearer", config["api_key"]>>

PAGE_SIZE == 500
SUBMISSION_FILTER == "all"
start_value == 1

\* mutant: FormsStream derived from TallyStream, not from _OrganizationStream
OrganizationStreamsWithoutForms == {"users", "invites"}

\* the classes that derive from _OrganizationStream
OrganizationStreams == {"users", "invites", "forms"}

\* path of each stream
path(s) ==
    CASE s = "users"       -> <<Lit("organizations"), Var("organizationId"), Lit("users")>>
      [] s = "invites"     -> <<Lit("organizations"), Var("organizationId"), Lit("invites")>>
      [] s = "forms"       -> <<Lit("forms")>>
      [] s = "questions"   -> <<Lit("forms"), Var("formId"), Lit("questions")>>
      [] s = "submissions" -> <<Lit("forms"), Var("formId"), Lit("submissions")>>
      [] s = "workspaces"  -> <<Lit("workspaces")>>

\* records_jsonpath of each stream: <<>> is "$[*]", <<k>> is "$.k[*]"
records_jsonpath(s) ==
    CASE s \in {"forms", "workspaces"} -> <<"items">>
      [] s = "questions"               -> <<"questions">>
      [] s = "submissions"             -> <<"submissions">>
      [] OTHER                         -> <<>>

\* parent_stream_type: questions and submissions are children of forms
parent_stream_type(s) == IF s \in {"questions", "submissions"} THEN <<"forms">> ELSE None

\* mutant: users and invites given the page-number paginator as well
PageNumberStreamsWithUnpaged == {"forms", "submissions", "workspaces", "users", "invites"}

\* the streams that override get_new_paginator with BasePageNumberPaginator
PageNumberStreams == {"forms", "submissions", "workspaces"}

\* TapTally.discover_streams, in the order Tap.load_streams keeps them (by name)
discover_streams == <<"forms", "invites", "questions", "submissions", "users", "workspaces">>

\* Stream.child_streams, in the order discover_streams lists the children
child_streams(s) == IF s = "forms" THEN <<"questions", "submissions">> ELSE <<>>

\* get_new_paginator: [value, finished] of a fresh paginator. The streams that
\* do not override it get RESTStream's default, SimpleHeaderPaginator on the
\* X-Next-Page header, whose token starts as None.
get_new_paginator(s) ==
    IF s \in PageNumberStreams
    THEN [value |-> <<start_value>>, finished |-> FALSE]
    ELSE [value |-> None, finished |-> FALSE]

\* mutant: the page parameter left out while the token is the initial value
get_url_params_implicit_first(s, next_page_token) ==
    LET base == EmptyDict
        static == CASE s = "forms"       -> Put(base, "limit", PAGE_SIZE)
                    [] s = "submissions" -> Put(base, "filter", SUBMISSION_FILTER)
                    [] OTHER             -> base
    IN IF s \in PageNumberStreams /\ next_page_token # None
            /\ next_page_token # <<start_value>>
       THEN Put(static, "page", next_page_token[1])
       ELSE static

\* get_url_params(context, next_page_token); RESTStream's own returns {}
get_url_params(s, next_page_token) ==
    LET base == EmptyDict
        static == CASE s = "forms"       -> Put(base, "limit", PAGE_SIZE)
                    [] s = "submissions" -> Put(base, "filter", SUBMISSION_FILTER)
                    [] OTHER             -> base
    IN IF s \in PageNumberStreams /\ next_page_token # None
       THEN Put(static, "page", next_page_token[1])
       ELSE static

\* RESTStream.get_url: every {key} of the path whose key is in the config or the
\* context is replaced by its value; the others stay as they are
get_url(s, context) ==
    LET vals == Update(config, context)
        p == path(s)
    IN [i \in 1..Len(p) |->
          IF p[i][1] = "var" /\ p[i][2] \in DOMAIN vals THEN Lit(vals[p[i][2]]) ELSE p[i]]

\* Stream.get_child_context: the context if there is one, else the record
get_child_context(record, context) ==
    IF DOMAIN context # {} THEN context ELSE record

\* Stream._process_record: the partition context's keys are added to the record
AddContext(record, context) == Update(context, record)

\* mutant: the partitions built in reverse order
PartitionListReversed(org_ids) ==
    [i \in 1..Len(org_ids) |-> [organizationId |-> org_ids[Len(org_ids) + 1 - i]]]

\* _OrganizationStream.partitions: one {"organizationId": id} per id, in order
PartitionList(org_ids) == [i \in 1..Len(org_ids) |-> [organizationId |-> org_ids[i]]]

\* config.get("organization_ids", [])
ConfigOrgIds == IF "organization_ids" \in DOMAIN config THEN config["organization_ids"] ELSE <<>>

\* mutant: a plain property, computed on every read
CachedPartitionsNever(s) == None

\* cached_property: the value kept in the instance, if any
CachedPartitions(s) == cache[s]

\* the request _OrganizationStream.partitions builds: requests.Request(...).prepare()
UserInfoRequest == [url |-> <<Lit("users"), Lit("me")>>, params |-> EmptyDict, auth |-> None]

\* RESTStream.prepare_request: url, params and the authenticator's header
prepare_request(s, context, next_page_token) ==
    [url |-> get_url(s, context),
     params |-> get_url_params(s, next_page_token),
     auth |-> <<authenticator>>]

\* --------------------------------------------------------- the mock Tally API
\* The API's data, fixed for the run: the page sizes the page-numbered
\* endpoints serve, the array the unpaged endpoints return and the X-Next-Page
\* header they carry, the organization of the token and the status /users/me
\* answers with when it does not refuse: 200, 201, or a 302 that is not
\* followed (no Location), each with the user's JSON as its body.
PageSeqs == UNION {[1..n -> 1..MaxPerPage] : n \in 0..MaxPages}

ApiData == [me : Orgs, meStatus : {200, 201, 302}, pages : PageSeqs,
            unpagedCount : 0..MaxPerPage, unpagedNext : {None, <<"2">>}]

\* the records of page p: ids run on from the pages before
PageRecords(pages, p) ==
    IF p \in 1..Len(pages)
    THEN [j \in 1..pages[p] |-> [id |-> SumTo(pages, p - 1) + j]]
    ELSE <<>>

UnpagedRecords == [j \in 1..api.unpagedCount |-> [id |-> j]]

\* the response to a request: its body and its X-Next-Page header
Serve(req) ==
    LET endpoint == req.url[Len(req.url)][2]
        page == IF "page" \in DOMAIN req.params THEN req.params["page"] ELSE 1
    IN CASE endpoint = "me"          -> [body |-> [organizationId |-> api.me], next |-> None]
         [] endpoint = "forms"       -> [body |-> [items |-> PageRecords(api.pages, page)], next |-> None]
         [] endpoint = "workspaces"  -> [body |-> [items |-> PageRecords(api.pages, page)], next |-> None]
         [] endpoint = "submissions" -> [body |-> [submissions |-> PageRecords(api.pages, page)], next |-> None]
         [] endpoint = "questions"   -> [body |-> [questions |-> UnpagedRecords], next |-> api.unpagedNext]
         [] OTHER                    -> [body |-> UnpagedRecords, next |-> api.unpagedNext]

\* the statuses the API answers a page request with: 200, or a client error, on which
\* validate_response raises at once. A server error is retried by the
\* framework's backoff before it raises; the retries are not part of the model.
Statuses == {200, 401}

\* the statuses /users/me answers with: the API's own, or a client error
LookupStatuses == {api.meStatus, 401}

\* RESTStream.parse_response: extract_jsonpath(records_jsonpath, response.json())
parse_response(s, body) ==
    LET jp == records_jsonpath(s)
    IN IF jp = <<>> THEN body
       ELSE IF jp[1] \in DOMAIN body THEN body[jp[1]] ELSE <<>>

\* ------------------------------------------------------------------ the run
\* a request sent, with what the API answered: the status, the number of
\* records parse_response found, the X-Next-Page header
Sent(id, s, kind, req, token, status, n, next) ==
    [inst |-> id, stream |-> s, kind |-> kind, url |-> req.url, params |-> req.params,
     auth |-> req.auth, token |-> token, status |-> status, n |-> n, next |-> next]

\* mutant: the status of the response is not looked at
raise_for_status_never(status) == FALSE

\* RESTStream.validate_response / Response.raise_for_status: a status that
\* raises, any 4xx or 5xx; every other status passes
raise_for_status(status) == status >= 400 /\ status < 600

\* _OrganizationStream.partitions (and Stream.partitions for the other streams):
\* the outcomes of one read of the property
partitions(s) ==
    IF s \notin OrganizationStreams
    THEN {[ok |-> TRUE, parts |-> None, cache |-> cache, reqs |-> <<>>]}
    ELSE IF CachedPartitions(s) # None
    THEN {[ok |-> TRUE, parts |-> CachedPartitions(s)[1], cache |-> cache, reqs |-> <<>>]}
    ELSE IF ConfigOrgIds # <<>>
    THEN LET ps == PartitionList(ConfigOrgIds)
         IN {[ok |-> TRUE, parts |-> ps, cache |-> [cache EXCEPT ![s] = <<ps>>], reqs |-> <<>>]}
    ELSE {LET me == Serve(UserInfoRequest).body
              ps == PartitionList(<<me["organizationId"]>>)
              rq == <<Sent(0, s, "lookup", UserInfoRequest, None, status, 0, None)>>
          IN IF raise_for_status(status)
             THEN [ok |-> FALSE, parts |-> None, cache |-> cache, reqs |-> rq]
             ELSE [ok |-> TRUE, parts |-> ps, cache |-> [cache EXCEPT ![s] = <<ps>>], reqs |-> rq]
          : status \in LookupStatuses}

\* Stream._sync_records: context_list or [{}]
ContextList(parts) == IF parts = <<>> THEN <<EmptyDict>> ELSE parts

NewFrame(s, ctx, id) ==
    [stream |-> s, ctx |-> ctx, inst |-> id, pag |-> get_new_paginator(s),
     hasResp |-> FALSE, respNext |-> None, pending |-> <<>>,
     kids |-> child_streams(s)]

\* mutant: the page number advanced by two
advance_by_two(s, pag, respNext) ==
    LET new == IF s \in PageNumberStreams THEN <<pag.value[1] + 2>> ELSE respNext
    IN IF new # None /\ new = pag.value
       THEN [value |-> pag.value, finished |-> pag.finished, loop |-> TRUE]
       ELSE IF new = None
       THEN [value |-> pag.value, finished |-> TRUE, loop |-> FALSE]
       ELSE [value |-> new, finished |-> FALSE, loop |-> FALSE]

\* BaseAPIPaginator.advance with get_next of BasePageNumberPaginator (value + 1)
\* or SimpleHeaderPaginator (the X-Next-Page header)
advance(s, pag, respNext) ==
    LET new == IF s \in PageNumberStreams THEN <<pag.value[1] + 1>> ELSE respNext
    IN IF new # None /\ new = pag.value
       THEN [value |-> pag.value, finished |-> pag.finished, loop |-> TRUE]
       ELSE IF new = None
       THEN [value |-> pag.value, finished |-> TRUE, loop |-> FALSE]
       ELSE [value |-> new, finished |-> FALSE, loop |-> FALSE]

Active == frames[Len(frames)]
SetActive(f) == [frames EXCEPT ![Len(frames)] = f]
NextTop(t) == IF t + 1 > Len(discover_streams) THEN "done" ELSE "run"

\* The configurations: organization_ids absent, empty, or a list of ids. The
\* ids are interchangeable names, so a list starts with "o1"; the token's own
\* organization and the status of /users/me are read only when no id is
\* configured.
Configs ==
    {[api_key |-> "k"]}
    \cup {[api_key |-> "k", organization_ids |-> ids] :
            ids \in {l \in UNION {[1..n -> Orgs] : n \in 0..MaxOrgs} :
                       l # <<>> => l[1] = "o1"}}

Init ==
    /\ config \in Configs
    /\ api \in {a \in ApiData : ConfigOrgIds # <<>> => (a.me = "o1" /\ a.meStatus = 200)}
    /\ cache = [s \in OrganizationStreams |-> None]
    /\ requests = <<>>
    /\ emitted = <<>>
    /\ pc = "run"
    /\ error = "none"
    /\ top = 1
    /\ stage = "sync"
    /\ ctxs = <<>>
    /\ frames = <<>>
    /\ inst = 0
    /\ completed = {}

\* Tap.sync_all: a child stream is left to its parent
SkipChild ==
    /\ pc = "run" /\ frames = <<>> /\ stage = "sync"
    /\ parent_stream_type(discover_streams[top]) # None
    /\ top' = top + 1
    /\ pc' = NextTop(top)
    /\ UNCHANGED <<config, api, cache, requests, emitted, error, stage, ctxs, frames, inst, completed>>

\* Tap.sync_all -> Stream.sync -> _sync_records: the partitions are read and
\* the first context's fetch starts
SyncStream ==
    /\ pc = "run" /\ frames = <<>> /\ stage = "sync"
    /\ LET s == discover_streams[top]
       IN /\ parent_stream_type(s) = None
          /\ \E o \in partitions(s) :
               /\ requests' = requests \o o.reqs
               /\ cache' = o.cache
               /\ IF o.ok
                  THEN /\ frames' = <<NewFrame(s, ContextList(o.parts)[1], inst + 1)>>
                       /\ ctxs' = Tail(ContextList(o.parts))
                       /\ inst' = inst + 1
                       /\ UNCHANGED <<pc, error>>
                  ELSE /\ pc' = "aborted"
                       /\ error' = "lookup"
                       /\ UNCHANGED <<frames, ctxs, inst>>
    /\ UNCHANGED <<config, api, emitted, top, stage, completed>>

\* Stream._sync_records, when get_records is exhausted for a context: a child
\* returns to its parent's record, a top-level stream goes on to its next
\* partition or has synced
FinishContext(f) ==
    /\ completed' = completed \cup {f.inst}
    /\ IF Len(frames) > 1
       THEN /\ frames' = SubSeq(frames, 1, Len(frames) - 1)
            /\ UNCHANGED <<ctxs, inst, stage>>
       ELSE IF ctxs # <<>>
       THEN /\ frames' = <<NewFrame(f.stream, Head(ctxs), inst + 1)>>
            /\ ctxs' = Tail(ctxs)
            /\ inst' = inst + 1
            /\ UNCHANGED stage
       ELSE /\ frames' = <<>>
            /\ stage' = "finalize"
            /\ UNCHANGED <<ctxs, inst>>

\* RESTStream.request_records, one turn of its loop: the paginator advances
\* over the page before, the request is sent, the response parsed; the loop
\* ends on a finished paginator or a page without records
RequestPage ==
    /\ pc = "run" /\ frames # <<>>
    /\ Active.pending = <<>>
    /\ LET f == Active
           s == f.stream
           adv == IF f.hasResp THEN advance(s, f.pag, f.respNext)
                  ELSE [value |-> f.pag.value, finished |-> f.pag.finished, loop |-> FALSE]
       IN IF adv.loop
          THEN /\ pc' = "aborted"
               /\ error' = "loop"
               /\ UNCHANGED <<requests, frames, ctxs, inst, stage, completed>>
          ELSE IF adv.finished
          THEN /\ FinishContext(f)
               /\ UNCHANGED <<requests, pc, error>>
          ELSE \E status \in Statuses :
                 LET req == prepare_request(s, f.ctx, adv.value)
                     resp == Serve(req)
                     recs == IF raise_for_status(status) THEN <<>>
                             ELSE parse_response(s, resp.body)
                 IN /\ requests' = Append(requests,
                                     Sent(f.inst, s, "page", req, adv.value, status, Len(recs),
                                          IF raise_for_status(status) THEN None
                                          ELSE resp.next))
                    /\ IF raise_for_status(status)
                       THEN /\ pc' = "aborted"
                            /\ error' = "http"
                            /\ UNCHANGED <<frames, ctxs, inst, stage, completed>>
                       ELSE IF recs = <<>>
                       THEN /\ FinishContext(f)
                            /\ UNCHANGED <<pc, error>>
                       ELSE /\ frames' = SetActive(
                                 [f EXCEPT !.pag = [value |-> adv.value, finished |-> FALSE],
                                           !.hasResp = TRUE,
                                           !.respNext = resp.next,
                                           !.pending = recs])
                            /\ UNCHANGED <<pc, error, ctxs, inst, stage, completed>>
    /\ UNCHANGED <<config, api, cache, emitted, top>>

\* Stream._process_record -> _sync_children: the next child stream is synced
\* with the child context of the record at hand
SyncChild ==
    /\ pc = "run" /\ frames # <<>>
    /\ Active.pending # <<>> /\ Active.kids # <<>>
    /\ LET f == Active
           child_context == get_child_context(Head(f.pending), f.ctx)
       IN /\ frames' = Append(SetActive([f EXCEPT !.kids = Tail(f.kids)]),
                              NewFrame(Head(f.kids), child_context, inst + 1))
          /\ inst' = inst + 1
    /\ UNCHANGED <<config, api, cache, requests, emitted, pc, error, top, stage, ctxs, completed>>

\* what Stream._sync_records writes for a record of the fetch f
Written(f, record) ==
    [stream |-> f.stream, inst |-> f.inst, record |-> AddContext(record, f.ctx)]

\* Stream._sync_records: the record of a parent stream, its children synced, is
\* written
EmitRecord ==
    /\ pc = "run" /\ frames # <<>>
    /\ child_streams(Active.stream) # <<>>
    /\ Active.pending # <<>> /\ Active.kids = <<>>
    /\ LET f == Active
       IN /\ emitted' = Append(emitted, Written(f, Head(f.pending)))
          /\ frames' = SetActive([f EXCEPT !.pending = Tail(f.pending),
                                           !.kids = child_streams(f.stream)])
    /\ UNCHANGED <<config, api, cache, requests, pc, error, top, stage, ctxs, inst, completed>>

\* Stream._sync_records on a stream without children: the records of the page
\* are written one after the other, in the order parse_response yields them
EmitPage ==
    /\ pc = "run" /\ frames # <<>>
    /\ child_streams(Active.stream) = <<>>
    /\ Active.pending # <<>>
    /\ LET f == Active
       IN /\ emitted' = emitted \o [j \in 1..Len(f.pending) |-> Written(f, f.pending[j])]
          /\ frames' = SetActive([f EXCEPT !.pending = <<>>])
    /\ UNCHANGED <<config, api, cache, requests, pc, error, top, stage, ctxs, inst, completed>>

\* Tap.sync_all -> Stream.finalize_state_progress_markers: the partitions are
\* read once more, then the next stream is due
FinalizeStream ==
    /\ pc = "run" /\ frames = <<>> /\ stage = "finalize"
    /\ \E o \in partitions(discover_streams[top]) :
         /\ requests' = requests \o o.reqs
         /\ cache' = o.cache
         /\ IF o.ok
            THEN /\ top' = top + 1
                 /\ stage' = "sync"
                 /\ pc' = NextTop(top)
                 /\ UNCHANGED error
            ELSE /\ pc' = "aborted"
                 /\ error' = "lookup"
                 /\ UNCHANGED <<top, stage>>
    /\ UNCHANGED <<config, api, emitted, ctxs, frames, inst, completed>>

Next ==
    \/ SkipChild
    \/ SyncStream
    \/ RequestPage
    \/ SyncChild
    \/ EmitRecord
    \/ EmitPage
    \/ FinalizeStream

Spec == Init /\ [][Next]_vars

\* ------------------------------------------------------------ the properties
\* the requests and the records of one fetch (one get_records call), in order
InstReqs(k) == SelectSeq(requests, LAMBDA r : r.inst = k)
InstEmits(k) == SelectSeq(emitted, LAMBDA e : e.inst = k)
StreamReqs(s) == SelectSeq(requests, LAMBDA r : r.stream = s /\ r.kind = "page")
Lookups(s) == SelectSeq(requests, LAMBDA r : r.stream = s /\ r.kind = "lookup")
AllLookups == SelectSeq(requests, LAMBDA r : r.kind = "lookup")

\* the stream at position t of the sync order has synced and been finalized
Finalized(t) == top > t

\* C3: with organization_ids a list of N >= 1 ids, the partitions an
\* organization stream resolves are exactly N, the i-th {organizationId: ids[i]},
\* in input order with duplicates kept, and no /users/me request is sent.
C3_ConfiguredPartitions ==
    ConfigOrgIds # <<>> =>
      /\ AllLookups = <<>>
      /\ \A s \in {"users", "invites", "forms"} :
           cache[s] # None =>
             /\ Len(cache[s][1]) = Len(config["organization_ids"])
             /\ \A i \in 1..Len(cache[s][1]) :
                  /\ DOMAIN cache[s][1][i] = {"organizationId"}
                  /\ cache[s][1][i]["organizationId"] = config["organization_ids"][i]

C3_Witness ==
    /\ "organization_ids" \in DOMAIN config
    /\ config["organization_ids"] = <<"o1", "o1">>
    /\ cache["users"] # None
    /\ Len(cache["users"][1]) = 2

\* C4: with organization_ids empty or absent, a stream that has resolved its
\* partitions has sent exactly one GET /users/me and holds the single partition
\* {organizationId: v}, v the organizationId of the response body; this stays so
\* over its later reads of the partitions.
C4_LookupOnce ==
    ConfigOrgIds = <<>> =>
      \A s \in {"users", "invites", "forms"} :
        cache[s] # None =>
          /\ Len(Lookups(s)) = 1
          /\ Lookups(s)[1].url = <<Lit("users"), Lit("me")>>
          /\ Lookups(s)[1].status = api.meStatus
          /\ cache[s][1] = <<[organizationId |-> api.me]>>

C4_Witness ==
    /\ ConfigOrgIds = <<>>
    /\ api.me = "o2"
    /\ api.meStatus = 201
    /\ Finalized(1)
    /\ cache["forms"] = <<(<<[organizationId |-> "o2"]>>)>>
    /\ Len(Lookups("forms")) = 1
    /\ Lookups("forms")[1].status = 201

\* C5 as stated: over a whole run at most one /users/me lookup is sent.
C5_OneLookupPerRun == Len(AllLookups) <= 1

\* C5, amended: each organization stream sends at most one lookup, and a run
\* with no organization id configured that syncs all three has sent three.
C5_OneLookupPerStream ==
    /\ \A s \in {"users", "invites", "forms"} : Len(Lookups(s)) <= 1
    /\ (pc = "done" /\ ConfigOrgIds = <<>>) => Len(AllLookups) = 3

C5_Witness ==
    /\ pc = "done"
    /\ Len(AllLookups) = 3
    /\ \A s \in {"users", "invites", "forms"} : cache[s] = <<(<<[organizationId |-> api.me]>>)>>

\* C7 as stated: every request sent carries the bearer token of the config.
C7_AllRequestsAuthenticated ==
    \A i \in DOMAIN requests : requests[i].auth = <<(<<"Bearer", config["api_key"]>>)>>

\* C8 as stated: a /users/me lookup answered with a non-2xx status ends the
\* run; the stream keeps no partition list and sends no request after it.
C8_NonSuccessIsFatal ==
    \A i \in DOMAIN requests :
      (requests[i].kind = "lookup" /\ requests[i].status \notin 200..299) =>
        /\ pc = "aborted"
        /\ cache[requests[i].stream] = None
        /\ \A j \in DOMAIN requests : j > i => requests[j].stream # requests[i].stream

\* C8, amended: a /users/me lookup answered with a 4xx or 5xx status ends the
\* run; the stream keeps no partition list, sends no request after it and
\* has no fetch under way.
C8_LookupFailureIsFatal ==
    \A i \in DOMAIN requests :
      (requests[i].kind = "lookup" /\ requests[i].status \in 400..599) =>
        /\ pc = "aborted"
        /\ cache[requests[i].stream] = None
        /\ \A j \in DOMAIN requests : j > i => requests[j].stream # requests[i].stream
        /\ \A f \in {frames[n] : n \in DOMAIN frames} : f.stream # requests[i].stream

C8_Witness ==
    /\ requests # <<>>
    /\ requests[Len(requests)].kind = "lookup"
    /\ requests[Len(requests)].stream = "invites"
    /\ requests[Len(requests)].status = 401
    /\ pc = "aborted"

\* the partitions an organization stream works through, by the configuration
NumPartitions == IF ConfigOrgIds = <<>> THEN 1 ELSE Len(ConfigOrgIds)
PartitionOrg(i) == IF ConfigOrgIds = <<>> THEN api.me ELSE config["organization_ids"][i]

\* C1: a fetch of a page-numbered stream that has ended was served the n
\* non-empty pages of the API and then an empty one: it sent n+1 requests, the
\* i-th answered with page i, and wrote the records of the n pages, page after
\* page and in each page's order.
C1_FetchLoop ==
    \A k \in completed :
      LET R == InstReqs(k)
          E == InstEmits(k)
          n == Len(api.pages)
      IN (R # <<>> /\ R[1].stream \in {"forms", "submissions", "workspaces"}) =>
           /\ Len(R) = n + 1
           /\ \A i \in 1..n : R[i].n = api.pages[i] /\ R[i].n > 0
           /\ R[n + 1].n = 0
           /\ Len(E) = SumTo(api.pages, n)
           /\ \A j \in 1..Len(E) : E[j].record["id"] = j

C1_Witness ==
    \E k \in completed :
      /\ InstReqs(k) # <<>>
      /\ InstReqs(k)[1].stream = "submissions"
      /\ Len(InstReqs(k)) = 3
      /\ InstReqs(k)[1].n = 2
      /\ Len(InstEmits(k)) = 3

\* C2 as stated: the requests of a child fetch go to /forms/{formId}/... with
\* formId filled with the id of the parent's form record at hand.
C2_ChildPathFilled ==
    Len(frames) = 2 =>
      \A i \in DOMAIN requests :
        requests[i].inst = frames[2].inst =>
          /\ requests[i].url[1] = Lit("forms")
          /\ requests[i].url[2][1] = "lit"
          /\ requests[i].url[2][2] = Head(frames[1].pending)["id"]

\* C6 as stated: a fetch of users or invites sends exactly one request.
C6_SingleRequest ==
    \A k \in 1..inst :
      (InstReqs(k) # <<>> /\ InstReqs(k)[1].stream \in {"users", "invites"}) =>
        Len(InstReqs(k)) = 1

\* C6, amended: a fetch of users or invites sends a further request only after
\* a response with records and an X-Next-Page header; a stream that has synced
\* without such a header has sent one request per partition, to
\* /organizations/{organizationId}/users (or /invites), in partition order.
C6_SingleRequestWithoutNextPage ==
    /\ \A k \in 1..inst :
         LET R == InstReqs(k)
         IN (R # <<>> /\ R[1].stream \in {"users", "invites"}) =>
              \A i \in 1..(Len(R) - 1) : R[i].n > 0 /\ R[i].next # None
    /\ \A t \in {2, 5} :
         (Finalized(t) /\ api.unpagedNext = None) =>
           LET s == discover_streams[t]
               R == StreamReqs(s)
           IN /\ Len(R) = NumPartitions
              /\ \A i \in 1..Len(R) :
                   R[i].url = <<Lit("organizations"), Lit(PartitionOrg(i)), Lit(s)>>

C6_Witness ==
    /\ Finalized(5)
    /\ NumPartitions = 2
    /\ api.unpagedCount = 2
    /\ Len(StreamReqs("users")) = 2
    /\ Len(SelectSeq(emitted, LAMBDA e : e.stream = "users")) = 4

\* C9 as stated: the first request of a fetch of a page-numbered stream, its
\* token the initial value, carries no page parameter.
C9_FirstPageImplicit ==
    \A i \in DOMAIN requests :
      (requests[i].stream \in {"forms", "submissions", "workspaces"}
         /\ requests[i].token = <<1>>) =>
        "page" \notin DOMAIN requests[i].params

\* C9, amended: the i-th request of a fetch of a page-numbered stream has token
\* i and carries page = i, the first one included, beside the static
\* parameters (limit=500 for forms, filter=all for submissions).
C9_PageOnEveryRequest ==
    \A k \in 1..inst :
      LET R == InstReqs(k)
      IN (R # <<>> /\ R[1].stream \in {"forms", "submissions", "workspaces"}) =>
           \A i \in 1..Len(R) :
             /\ R[i].token = <<i>>
             /\ "page" \in DOMAIN R[i].params
             /\ R[i].params["page"] = i
             /\ R[i].stream = "forms" =>
                  (DOMAIN R[i].params = {"limit", "page"} /\ R[i].params["limit"] = 500)
             /\ R[i].stream = "submissions" =>
                  (DOMAIN R[i].params = {"filter", "page"} /\ R[i].params["filter"] = "all")
             /\ R[i].stream = "workspaces" => DOMAIN R[i].params = {"page"}

C9_Witness ==
    \E i \in DOMAIN requests :
      /\ requests[i].stream = "workspaces"
      /\ requests[i].token = <<3>>
      /\ requests[i].params["page"] = 3

\* C10: once the forms stream has synced, with N organization partitions and n
\* non-empty pages of forms, it has sent N * (n+1) requests, all to /forms, each
\* partition's run of them starting again at page 1 with the same parameters,
\* and has written every form record N times.
FormsSynced == top > 1 \/ stage = "finalize"

C10_FormsPerPartition ==
    FormsSynced =>
      LET R == StreamReqs("forms")
          E == SelectSeq(emitted, LAMBDA e : e.stream = "forms")
          n == Len(api.pages)
      IN /\ Len(R) = NumPartitions * (n + 1)
         /\ \A i \in 1..Len(R) :
              /\ R[i].url = <<Lit("forms")>>
              /\ R[i].params["page"] = ((i - 1) % (n + 1)) + 1
              /\ R[i].params["limit"] = 500
         /\ \A id \in 1..SumTo(api.pages, n) :
              Cardinality({j \in DOMAIN E : E[j].record["id"] = id}) = NumPartitions
         /\ Len(E) = NumPartitions * SumTo(api.pages, n)

C10_Witness ==
    /\ FormsSynced
    /\ NumPartitions = 2
    /\ Len(api.pages) = 2
    /\ Len(StreamReqs("forms")) = 6
    /\ Len(SelectSeq(emitted, LAMBDA e : e.stream = "forms")) >= 4
====
